---------------------------- MODULE Spec2Model ----------------------------
(***************************************************************************)
(* A model of rustitect: the documentation extractor (rust_doc_parser.rs), *)
(* the pipeline controller (processing.rs), the pandoc bridge              *)
(* (asciidoc_parser.rs) and the command line driver (main.rs).             *)
(*                                                                         *)
(* Text is a sequence of tokens.  A token is a short string: a character   *)
(* (" ", "\n", "a"), an identifier ("A") or a literal marker of the        *)
(* program ("@startuml", "FILENAME").  String concatenation is \o,         *)
(* str::trim strips whitespace tokens at both ends, str::lines splits at   *)
(* "\n" tokens.                                                            *)
(***************************************************************************)
EXTENDS Integers, Sequences, FiniteSets, TLC

VARIABLES
    args,            \* Cli: the parsed command line (cli.rs)
    input,           \* the source document given to the run
    pc,              \* position of the run in main / Processing::start
    calls,           \* components invoked so far, in order
    markdown_output, \* Processing::start: result of process_input
    child,           \* the pandoc child process of convert_with_pandoc
    conv,            \* result of parse_from_markdown (Ok text / Err message)
    output_buffer,   \* the bundle: OutputFormat -> text
    pending,         \* write_output: entries of the bundle not yet written
    fs,              \* files on disk: name -> content
    stdout,          \* bytes written to standard output
    class            \* parse_code_doc: the Class returned (extractor runs)

vars == <<args, input, pc, calls, markdown_output, child, conv,
          output_buffer, pending, fs, stdout, class>>

-----------------------------------------------------------------------------
(* Bounds of the model *)

\* longest attribute list of a generated struct
MaxAttrs == 2
\* most top-level items of a generated source file
MaxItems == 2
\* most parameters of a generated method
MaxParams == 2

-----------------------------------------------------------------------------
(* Text *)

NL == "\n"
Whitespace == {" ", NL, "\t"}

RECURSIVE TrimStart(_)
TrimStart(s) ==
    IF s # <<>> /\ Head(s) \in Whitespace THEN TrimStart(Tail(s)) ELSE s

RECURSIVE TrimEnd(_)
TrimEnd(s) ==
    IF s # <<>> /\ s[Len(s)] \in Whitespace
    THEN TrimEnd(SubSeq(s, 1, Len(s) - 1))
    ELSE s

\* str::trim
Trim(s) == TrimEnd(TrimStart(s))

\* [String]::join
RECURSIVE Join(_, _)
Join(parts, sep) ==
    IF parts = <<>> THEN <<>>
    ELSE IF Len(parts) = 1 THEN parts[1]
    ELSE parts[1] \o sep \o Join(Tail(parts), sep)

Min(S) == CHOOSE x \in S : \A y \in S : x <= y

\* a line as str::lines hands it out: without the carriage return of "\r\n"
StripCR(line) ==
    IF line # <<>> /\ line[Len(line)] = "\r"
    THEN SubSeq(line, 1, Len(line) - 1) ELSE line

\* str::lines: the lines of a text, line terminators ("\n" or "\r\n")
\* removed; a final line without terminator counts, an empty text has no line
RECURSIVE Lines(_)
Lines(s) ==
    IF s = <<>> THEN <<>>
    ELSE LET ends == {i \in DOMAIN s : s[i] = NL}
         IN  IF ends = {} THEN <<s>>
             ELSE <<StripCR(SubSeq(s, 1, Min(ends) - 1))>>
                      \o Lines(SubSeq(s, Min(ends) + 1, Len(s)))

\* str::starts_with
StartsWith(s, p) == Len(s) >= Len(p) /\ SubSeq(s, 1, Len(p)) = p

\* str::contains
Contains(s, p) ==
    \E i \in 1..(Len(s) + 1) : i + Len(p) - 1 <= Len(s)
                                /\ SubSeq(s, i, i + Len(p) - 1) = p

\* str::replace: every non-overlapping occurrence, left to right
RECURSIVE Replace(_, _, _)
Replace(s, from, to) ==
    LET found == {i \in DOMAIN s : StartsWith(SubSeq(s, i, Len(s)), from)}
    IN  IF found = {} THEN s
        ELSE SubSeq(s, 1, Min(found) - 1) \o to
                 \o Replace(SubSeq(s, Min(found) + Len(from), Len(s)), from, to)

\* the concatenation of a sequence of texts
RECURSIVE Flatten(_)
Flatten(seqs) ==
    IF seqs = <<>> THEN <<>> ELSE Head(seqs) \o Flatten(Tail(seqs))

RECURSIVE SeqsUpTo(_, _)
SeqsUpTo(S, n) ==
    IF n = 0 THEN {<<>>}
    ELSE LET shorter == SeqsUpTo(S, n - 1)
         IN  shorter \cup {Append(q, e) : q \in shorter, e \in S}

-----------------------------------------------------------------------------
(* The syntax tree handed over by syn::parse_file *)

\* Attribute::parse_meta of an attribute: a Meta, or an error
DocAttr(value) == [meta |-> "NameValue", path |-> "doc", lit |-> "Str", value |-> value]
DeriveAttr     == [meta |-> "List", path |-> "derive", lit |-> "None", value |-> <<>>]
DocIntAttr     == [meta |-> "NameValue", path |-> "doc", lit |-> "Int", value |-> <<"7">>]
OtherNVAttr    == [meta |-> "NameValue", path |-> "path", lit |-> "Str", value |-> <<"x">>]
BadAttr        == [meta |-> "Err", path |-> "", lit |-> "None", value |-> <<>>]

Field(ident, ty, attrs) == [ident |-> ident, ty |-> ty, attrs |-> attrs]

ItemStruct(ident, attrs, fields_kind, named) ==
    [kind |-> "Struct", ident |-> ident, attrs |-> attrs,
     fields |-> fields_kind, named |-> named,
     trait_ |-> "None", self_ty |-> <<>>, items |-> <<>>]

ItemImpl(trait_, self_ty, items) ==
    [kind |-> "Impl", ident |-> <<>>, attrs |-> <<>>,
     fields |-> "Unit", named |-> <<>>,
     trait_ |-> trait_, self_ty |-> self_ty, items |-> items]

ItemFn(ident) ==
    [kind |-> "Fn", ident |-> ident, attrs |-> <<>>,
     fields |-> "Unit", named |-> <<>>,
     trait_ |-> "None", self_ty |-> <<>>, items |-> <<>>]

\* FnArg: a receiver, or a typed pattern
Receiver          == [arg |-> "Receiver", pat |-> "None", ident |-> <<>>, ty |-> <<>>]
TypedIdent(x, ty) == [arg |-> "Typed", pat |-> "Ident", ident |-> x, ty |-> ty]
TypedTuple(ty)    == [arg |-> "Typed", pat |-> "Tuple", ident |-> <<>>, ty |-> ty]

ImplMethod(ident, inputs, attrs) ==
    [kind |-> "Method", ident |-> ident, inputs |-> inputs, attrs |-> attrs]
ImplConst(ident) ==
    [kind |-> "Const", ident |-> ident, inputs |-> <<>>, attrs |-> <<>>]


-----------------------------------------------------------------------------
(* rust_doc_parser.rs: the Doc Extractor *)

\* model::class_object::Method
Method(name, documentation) == [name |-> name, documentation |-> documentation]

\* model::class_object::Class; panicked: the call unwound instead of returning
Class(name, documentation, fields, methods) ==
    [panicked |-> FALSE, plantuml |-> <<>>, name |-> name,
     documentation |-> documentation, fields |-> fields, methods |-> methods]

PanickedClass ==
    [panicked |-> TRUE, plantuml |-> <<>>, name |-> <<>>,
     documentation |-> <<>>, fields |-> <<>>, methods |-> <<>>]

\* variant: the literal is pushed as written
add_name_value_untrimmed(documentation, meta) ==
    IF meta.meta = "NameValue" /\ meta.path = "doc" /\ meta.lit = "Str"
    THEN documentation \o meta.value \o <<NL>>
    ELSE documentation

add_name_value_to_documentation(documentation, meta) ==
    IF meta.meta = "NameValue" /\ meta.path = "doc" /\ meta.lit = "Str"
    THEN documentation \o Trim(meta.value) \o <<NL>>
    ELSE documentation

\* attribute.parse_meta().unwrap() of some attribute of the list panics
ParseMetaPanics(attrs) == \E i \in DOMAIN attrs : attrs[i].meta = "Err"

\* for attribute in attrs { add_name_value_to_documentation(&mut doc, meta) }
RECURSIVE AttrsDocumentation(_, _)
AttrsDocumentation(documentation, attrs) ==
    IF attrs = <<>> THEN documentation
    ELSE AttrsDocumentation(
             add_name_value_to_documentation(documentation, Head(attrs)),
             Tail(attrs))

\* variant: a newline follows the doc lines of a field, as it does those
\* of a struct
RECURSIVE collect_fields_with_newline(_)
collect_fields_with_newline(named) ==
    IF named = <<>> THEN <<>>
    ELSE <<Method(Head(named).ident,
                  AttrsDocumentation(<<>>, Head(named).attrs) \o <<NL>>)>>
         \o collect_fields_with_newline(Tail(named))

RECURSIVE collect_fields(_)
collect_fields(named) ==
    IF named = <<>> THEN <<>>
    ELSE <<Method(Head(named).ident,
                  AttrsDocumentation(<<>>, Head(named).attrs))>>
         \o collect_fields(Tail(named))

FieldsPanic(named) == \E i \in DOMAIN named : ParseMetaPanics(named[i].attrs)

\* quote!(#parameter_type).to_string(): the tokens of the type, one space
\* between two tokens
QuoteToString(ty) == Join([i \in DOMAIN ty |-> <<ty[i]>>], <<" ">>)

\* variant: every typed parameter is listed, whatever its pattern
RECURSIVE method_parameters_all_typed(_)
method_parameters_all_typed(inputs) ==
    IF inputs = <<>> THEN <<>>
    ELSE LET a == Head(inputs)
         IN  (IF a.arg = "Typed"
              THEN <<a.ident \o <<":", " ">> \o QuoteToString(a.ty)>>
              ELSE <<>>)
             \o method_parameters_all_typed(Tail(inputs))

\* sig.inputs.iter().filter_map(..): "name: Type" of each typed parameter
\* bound by an identifier pattern
RECURSIVE method_parameters(_)
method_parameters(inputs) ==
    IF inputs = <<>> THEN <<>>
    ELSE LET a == Head(inputs)
         IN  (IF a.arg = "Typed" /\ a.pat = "Ident"
              THEN <<a.ident \o <<":", " ">> \o QuoteToString(a.ty)>>
              ELSE <<>>)
             \o method_parameters(Tail(inputs))

RECURSIVE collect_methods(_)
collect_methods(impl_items) ==
    IF impl_items = <<>> THEN <<>>
    ELSE LET m == Head(impl_items)
         IN  (IF m.kind = "Method"
              THEN <<Method(m.ident \o <<"(">>
                              \o Join(method_parameters(m.inputs), <<",", " ">>)
                              \o <<")">>,
                            AttrsDocumentation(<<>>, m.attrs))>>
              ELSE <<>>)
             \o collect_methods(Tail(impl_items))

MethodsPanic(impl_items) ==
    \E i \in DOMAIN impl_items :
        impl_items[i].kind = "Method" /\ ParseMetaPanics(impl_items[i].attrs)

\* variant: no newline is pushed after the attributes of a struct
struct_documentation_no_newline(struct_documentation, attrs) ==
    AttrsDocumentation(struct_documentation, attrs)

\* Item::Struct arm: the attribute loop and struct_documentation.push('\n')
struct_documentation_push(struct_documentation, attrs) ==
    AttrsDocumentation(struct_documentation, attrs) \o <<NL>>

\* Item::Struct arm of the loop of parse_code_doc
item_struct_arm(acc, item_struct) ==
    IF ParseMetaPanics(item_struct.attrs)
       \/ (item_struct.fields = "Named" /\ FieldsPanic(item_struct.named))
    THEN PanickedClass
    ELSE Class(acc.name \o item_struct.ident,
               struct_documentation_push(acc.documentation, item_struct.attrs),
               IF item_struct.fields = "Named"
               THEN collect_fields(item_struct.named)
               ELSE acc.fields,
               acc.methods)

\* Item::Impl arm of the loop of parse_code_doc
item_impl_arm(acc, item_impl) ==
    IF item_impl.trait_ = "None"
    THEN IF MethodsPanic(item_impl.items) THEN PanickedClass
         ELSE Class(acc.name, acc.documentation, acc.fields,
                    acc.methods \o collect_methods(item_impl.items))
    ELSE acc

\* for item in parsed_file.items { match item { .. } }
RECURSIVE parse_items(_, _)
parse_items(acc, items) ==
    IF acc.panicked \/ items = <<>> THEN acc
    ELSE LET item == Head(items)
             next == CASE item.kind = "Struct" -> item_struct_arm(acc, item)
                       [] item.kind = "Impl"   -> item_impl_arm(acc, item)
                       [] OTHER                -> acc
         IN  parse_items(next, Tail(items))

\* RustDocParser::parse_code_doc; raw_rust_code is given by what
\* syn::parse_file makes of it: an error, or the items of the file
parse_code_doc(raw_rust_code) ==
    IF ~raw_rust_code.ok THEN PanickedClass
    ELSE parse_items(Class(<<>>, <<>>, <<>>, <<>>), raw_rust_code.items)

\* RustDocParser::parse_code_doc_to_markdown_string
parse_code_doc_to_markdown_string(raw_rust_code) ==
    LET result == parse_code_doc(raw_rust_code)
    IN  <<"#", "#", " ">> \o result.name \o <<NL, NL>> \o result.documentation

-----------------------------------------------------------------------------
(* Source files the extractor is run on *)

Malformed == [ok |-> FALSE, items |-> <<>>]
Parsed(items) == [ok |-> TRUE, items |-> items]

\* /// a b   (with surrounding blanks),  ///c,  #[derive(Debug)]
StructAttrKinds ==
    {DocAttr(<<" ", "a", " ", "b", " ">>), DocAttr(<<"c">>), DeriveAttr}

NamedA ==
    <<Field(<<"x">>, <<"T">>, <<DocAttr(<<" ", "d">>)>>),
      Field(<<"y">>, <<"U">>, <<>>)>>

StructsA ==
    {ItemStruct(<<"A">>, al, "Named", NamedA) :
         al \in SeqsUpTo(StructAttrKinds, MaxAttrs)}

StructsB ==
    {ItemStruct(<<"B">>, <<DocAttr(<<"e">>), OtherNVAttr, DocIntAttr>>,
                "Unnamed", <<>>),
     ItemStruct(<<"B">>, <<>>, "Named", <<Field(<<"z">>, <<"V">>, <<>>)>>),
     ItemStruct(<<"B">>, <<BadAttr>>, "Unit", <<>>),
     \* /** k
     \*   * l */  struct D { #[doc = "m\n  n"] w: W }
     ItemStruct(<<"D">>, <<DocAttr(<<" ", "k", NL, " ", " ", "*", " ", "l", " ">>)>>,
                "Named",
                <<Field(<<"w">>, <<"W">>,
                        <<DocAttr(<<"m", NL, " ", " ", "n">>)>>)>>),
     \* struct E { /// q
     \*            #[derive(Debug)]
     \*            ///r
     \*            v: V }
     ItemStruct(<<"E">>, <<>>, "Named",
                <<Field(<<"v">>, <<"V">>,
                        <<DocAttr(<<" ", "q">>), DeriveAttr,
                          DocAttr(<<"r", " ">>)>>)>>),
     \* /// @startuml   /// ## n   struct C;
     ItemStruct(<<"C">>, <<DocAttr(<<" ", "@startuml">>),
                           DocAttr(<<" ", "#", "#", " ", "n">>)>>,
                "Unit", <<>>)}

MethodNew ==
    ImplMethod(<<"new">>,
               <<TypedIdent(<<"x">>, <<"T">>), TypedIdent(<<"y">>, <<"U">>)>>,
               <<DocAttr(<<" ", "f">>)>>)
MethodGet  == ImplMethod(<<"get">>, <<Receiver>>, <<>>)
MethodFmt  == ImplMethod(<<"fmt">>, <<Receiver>>, <<DocAttr(<<"g">>)>>)
MethodMake == ImplMethod(<<"make">>, <<>>, <<DocAttr(<<"h">>)>>)

Impls ==
    {ItemImpl("None", <<"A">>, <<MethodNew, ImplConst(<<"K">>), MethodGet>>),
     ItemImpl("Display", <<"A">>, <<MethodFmt>>),
     ItemImpl("None", <<"B">>, <<MethodMake>>)}

Items == StructsA \cup StructsB \cup Impls \cup {ItemFn(<<"main">>)}

DocFiles == {Parsed(items) : items \in SeqsUpTo(Items, MaxItems)}

\* self, x: T, y: Vec<T>, (a, b): T
ParamKinds ==
    {Receiver, TypedIdent(<<"x">>, <<"T">>),
     TypedIdent(<<"y">>, <<"Vec", "<", "T", ">">>), TypedTuple(<<"T">>)}

MethodAttrLists ==
    {<<>>, <<DocAttr(<<" ", "f", " ">>)>>,
     <<DocAttr(<<"g">>), DeriveAttr, DocAttr(<<"h", " ">>)>>,
     <<DocAttr(<<" ", "o", " ", NL, "p">>)>>}

StructA0 == ItemStruct(<<"A">>, <<>>, "Named", NamedA)

MethodFiles ==
    {Parsed(<<StructA0,
              ItemImpl("None", <<"A">>, <<ImplMethod(<<"m">>, inputs, attrs)>>)>>) :
         inputs \in SeqsUpTo(ParamKinds, MaxParams), attrs \in MethodAttrLists}

ExtractorInputs == {Malformed} \cup DocFiles \cup MethodFiles

-----------------------------------------------------------------------------
(* cli.rs *)

None    == [some |-> FALSE, v |-> <<>>]
Some(v) == [some |-> TRUE, v |-> v]

\* enum OutputFormat
OutputFormat == {"Asciidoc", "AsciidocPlantuml", "Markdown", "Plantuml"}

\* struct Cli, with its OnlyFlags flattened
Cli(plantuml_only, markdown_only, input_file, output_file, format, preserve_names, file_name_prefix) ==
    [plantuml_only |-> plantuml_only, markdown_only |-> markdown_only,
     input_file |-> input_file, output_file |-> output_file,
     format |-> format, preserve_names |-> preserve_names,
     file_name_prefix |-> file_name_prefix]

\* the command line without any argument: format defaults to asciidoc, the
\* prefix to the empty string
DefaultCli == Cli(FALSE, FALSE, None, None, "Asciidoc", FALSE, Some(<<>>))

NoChild == [state |-> "none", success |-> FALSE, stdout |-> <<>>,
            stderr_written |-> <<>>, stderr_captured |-> <<>>]
NoConv  == [state |-> "none", text |-> <<>>]
EmptyMap == [f \in {} |-> <<>>]

-----------------------------------------------------------------------------
(* plantuml_parser.rs: the Diagram Renderer *)

\* one field line of a class block: "    - ident: type"
FieldLine(f) == <<"    ", "-", " ">> \o f.ident \o <<":", " ">> \o f.ty \o <<NL>>

RECURSIVE FieldLines(_)
FieldLines(named) ==
    IF named = <<>> THEN <<>>
    ELSE FieldLine(Head(named)) \o FieldLines(Tail(named))

ClassBlock(item_struct) ==
    <<"class", " ", "\"">> \o item_struct.ident \o <<"\"", " ", "{", NL>>
        \o (IF item_struct.fields = "Named"
            THEN FieldLines(item_struct.named) ELSE <<>>)
        \o <<"}">>

\* ruml::render_plantuml(file_parser(file)): one class block per struct
\* between the fixed markers
render_plantuml(items) ==
    LET structs == SelectSeq(items, LAMBDA it : it.kind = "Struct")
    IN  <<"@startuml", NL, NL>>
            \o Join([i \in DOMAIN structs |-> ClassBlock(structs[i])], <<NL>>)
            \o <<NL, NL, "@enduml">>

\* PlantumlParser::parse_code_to_string: panics on a file syn cannot parse
PlantumlPanics(raw_rust_code) == ~raw_rust_code.ok
parse_code_to_string(raw_rust_code) == render_plantuml(raw_rust_code.items)

-----------------------------------------------------------------------------
(* processing.rs *)

Hashes(n) == [i \in 1..n |-> "#"]
\* the grave accent, which a TLA+ string cannot hold, and the code fence
Backtick == "<grave>"
Fence == <<Backtick, Backtick, Backtick>>

RECURSIVE MethodSections(_)
MethodSections(methods) ==
    IF methods = <<>> THEN <<>>
    ELSE <<NL>> \o Hashes(3) \o <<" ">> \o Head(methods).name \o <<NL>>
             \o Head(methods).documentation \o <<NL>>
             \o MethodSections(Tail(methods))

\* variant: a parse failure is swallowed
ProcessInputNeverPanics(raw_rust_code) == FALSE

\* process_input panics when the renderer or the extractor does
ProcessInputPanics(raw_rust_code) ==
    PlantumlPanics(raw_rust_code) \/ parse_code_doc(raw_rust_code).panicked

\* variant: the fields are given subsections as the methods are
process_input_with_fields(raw_rust_code) ==
    LET plantuml == parse_code_to_string(raw_rust_code)
        documentation == parse_code_doc(raw_rust_code)
    IN  Hashes(2) \o <<" ">> \o documentation.name \o <<NL>>
            \o Fence \o <<"plantuml", NL>> \o plantuml \o <<NL>> \o Fence \o <<NL>>
            \o <<NL>> \o documentation.documentation \o <<NL>>
            \o MethodSections(documentation.fields)
            \o MethodSections(documentation.methods)

\* process_input: the Markdown Assembler
process_input(raw_rust_code) ==
    LET plantuml == parse_code_to_string(raw_rust_code)
        documentation == parse_code_doc(raw_rust_code)
    IN  Hashes(2) \o <<" ">> \o documentation.name \o <<NL>>
            \o Fence \o <<"plantuml", NL>> \o plantuml \o <<NL>> \o Fence \o <<NL>>
            \o <<NL>> \o documentation.documentation \o <<NL>>
            \o MethodSections(documentation.methods)

is_no_only_flag_set(a) == ~(a.plantuml_only \/ a.markdown_only)

\* the components process_input_only_flags invokes
only_flags_calls(a) ==
    IF a.plantuml_only THEN <<"parse_code_to_string">>
    ELSE IF a.markdown_only THEN <<"parse_code_doc">>
    ELSE <<>>

OnlyFlagsPanics(raw_rust_code, a) ==
    IF a.plantuml_only THEN PlantumlPanics(raw_rust_code)
    ELSE IF a.markdown_only THEN parse_code_doc(raw_rust_code).panicked
    ELSE FALSE

\* variant: extraction-only hands out the assembled Markdown document
process_input_only_flags_assembled(raw_rust_code, a) ==
    IF a.plantuml_only
    THEN [f \in {"Plantuml"} |-> parse_code_to_string(raw_rust_code)]
    ELSE IF a.markdown_only
    THEN [f \in {"Markdown"} |-> process_input(raw_rust_code)]
    ELSE EmptyMap

\* variant: diagram-only hands out the diagram under a Markdown headline
process_input_only_flags_headlined(raw_rust_code, a) ==
    IF a.plantuml_only
    THEN [f \in {"Plantuml"} |->
              Hashes(2) \o <<" ">> \o parse_code_doc(raw_rust_code).name
                  \o <<NL>> \o parse_code_to_string(raw_rust_code)]
    ELSE IF a.markdown_only
    THEN [f \in {"Markdown"} |-> parse_code_doc_to_markdown_string(raw_rust_code)]
    ELSE EmptyMap

process_input_only_flags(raw_rust_code, a) ==
    IF a.plantuml_only
    THEN [f \in {"Plantuml"} |-> parse_code_to_string(raw_rust_code)]
    ELSE IF a.markdown_only
    THEN [f \in {"Markdown"} |-> parse_code_doc_to_markdown_string(raw_rust_code)]
    ELSE EmptyMap

StartTag == <<"@startuml">>
EndTag   == <<"@enduml">>

\* .skip_while(|line| !line.trim().starts_with(start_tag))
RECURSIVE SkipToStartTag(_)
SkipToStartTag(ls) ==
    IF ls # <<>> /\ ~StartsWith(Trim(Head(ls)), StartTag)
    THEN SkipToStartTag(Tail(ls)) ELSE ls

\* .take_while(|line| !line.trim().starts_with(end_tag))
RECURSIVE TakeToEndTag(_)
TakeToEndTag(ls) ==
    IF ls # <<>> /\ ~StartsWith(Trim(Head(ls)), EndTag)
    THEN <<Head(ls)>> \o TakeToEndTag(Tail(ls)) ELSE <<>>

\* variant: the lines are taken without the trim before starts_with
RECURSIVE SkipToStartTagUntrimmed(_)
SkipToStartTagUntrimmed(ls) ==
    IF ls # <<>> /\ ~StartsWith(Head(ls), StartTag)
    THEN SkipToStartTagUntrimmed(Tail(ls)) ELSE ls

extract_plantuml_untrimmed(asciidoc_output) ==
    Join(TakeToEndTag(SkipToStartTagUntrimmed(Lines(asciidoc_output))), <<NL>>)
        \o <<NL>> \o EndTag \o <<NL>>

extract_plantuml_from_asciidoc(asciidoc_output) ==
    Join(TakeToEndTag(SkipToStartTag(Lines(asciidoc_output))), <<NL>>)
        \o <<NL>> \o EndTag \o <<NL>>

IncludeDirective == <<"plantuml::", "FILENAME", ".puml[]">>
PlantumlAttr == <<"[", "plantuml", "]">>
Dashes == "----"
LineEnds == {NL, "\r"}

\* the index after the run of line ends starting at i; i itself without one
RECURSIVE SkipLineEnds(_, _)
SkipLineEnds(s, i) ==
    IF i <= Len(s) /\ s[i] \in LineEnds THEN SkipLineEnds(s, i + 1) ELSE i

\* [\n\r]+---- at i: the index after it, 0 when it does not match
LineEndsThenDashes(s, i) ==
    LET j == SkipLineEnds(s, i)
    IN  IF j > i /\ j <= Len(s) /\ s[j] = Dashes THEN j + 1 ELSE 0

\* .*?@enduml[\n\r]+---- from i: the index after the shortest match, 0 if none
LazyToEndOfBlock(s, i) ==
    LET ends == {j \in i..Len(s) :
                     s[j] = "@enduml" /\ LineEndsThenDashes(s, j + 1) # 0}
    IN  IF ends = {} THEN 0 ELSE LineEndsThenDashes(s, Min(ends) + 1)

\* the pattern of replace_puml_with_include matched at i: the index after
\* the match, 0 when it does not match there
PatternMatch(s, i) ==
    IF i + 2 <= Len(s) /\ SubSeq(s, i, i + 2) = PlantumlAttr
    THEN LET j == LineEndsThenDashes(s, i + 3)
         IN  IF j = 0 THEN 0
             ELSE LET k == SkipLineEnds(s, j)
                  IN  IF k > j THEN LazyToEndOfBlock(s, k) ELSE 0
    ELSE 0

\* Regex::replace_all: leftmost matches, not overlapping
RECURSIVE ReplaceAllFrom(_, _)
ReplaceAllFrom(s, i) ==
    LET found == {j \in i..Len(s) : PatternMatch(s, j) # 0}
    IN  IF found = {} THEN SubSeq(s, i, Len(s))
        ELSE SubSeq(s, i, Min(found) - 1) \o IncludeDirective
                 \o ReplaceAllFrom(s, PatternMatch(s, Min(found)))

replace_puml_with_include(asciidoc_string) == ReplaceAllFrom(asciidoc_string, 1)

\* variant: the diagram is filed under the Plantuml key
asciidoc_bundle_plantuml_key(format, asciidoc_output) ==
    IF format = "AsciidocPlantuml"
    THEN [f \in {"Plantuml", "Asciidoc"} |->
              IF f = "Plantuml"
              THEN extract_plantuml_from_asciidoc(asciidoc_output)
              ELSE replace_puml_with_include(asciidoc_output)]
    ELSE [f \in {"Asciidoc"} |-> asciidoc_output]

\* variant: the diagram is extracted after the replacement
asciidoc_bundle_extract_after_replace(format, asciidoc_output) ==
    IF format = "AsciidocPlantuml"
    THEN [f \in {"AsciidocPlantuml", "Asciidoc"} |->
              IF f = "AsciidocPlantuml"
              THEN extract_plantuml_from_asciidoc(
                       replace_puml_with_include(asciidoc_output))
              ELSE replace_puml_with_include(asciidoc_output)]
    ELSE [f \in {"Asciidoc"} |-> asciidoc_output]

\* Processing::start, lines 51-56: the bundle made of the converted text
asciidoc_bundle(format, asciidoc_output) ==
    IF format = "AsciidocPlantuml"
    THEN [f \in {"AsciidocPlantuml", "Asciidoc"} |->
              IF f = "AsciidocPlantuml"
              THEN extract_plantuml_from_asciidoc(asciidoc_output)
              ELSE replace_puml_with_include(asciidoc_output)]
    ELSE [f \in {"Asciidoc"} |-> asciidoc_output]

-----------------------------------------------------------------------------
(* The extractor on its own: parse_code_doc applied to a source file *)

InitDoc ==
    /\ input \in ExtractorInputs
    /\ pc = "extract"
    /\ class = PanickedClass
    /\ args = DefaultCli
    /\ calls = <<>>
    /\ markdown_output = <<>>
    /\ child = NoChild
    /\ conv = NoConv
    /\ output_buffer = EmptyMap
    /\ pending = {}
    /\ fs = EmptyMap
    /\ stdout = <<>>

ParseCodeDoc ==
    /\ pc = "extract"
    /\ class' = parse_code_doc(input)
    /\ pc' = IF class'.panicked THEN "panicked" ELSE "extracted"
    /\ UNCHANGED <<args, input, calls, markdown_output, child, conv,
                   output_buffer, pending, fs, stdout>>

NextDoc == ParseCodeDoc

SpecDoc == InitDoc /\ [][NextDoc]_vars

-----------------------------------------------------------------------------
(* The functions of processing.rs that work on the source file alone *)

OnlyFlagArgs ==
    {[DefaultCli EXCEPT !.plantuml_only = TRUE],
     [DefaultCli EXCEPT !.markdown_only = TRUE]}

\* process_input(input)
ProcessInput ==
    /\ pc = "extract"
    /\ calls' = calls \o <<"process_input">>
    /\ IF ProcessInputPanics(input)
       THEN pc' = "panicked" /\ UNCHANGED <<markdown_output, class>>
       ELSE /\ pc' = "assembled"
            /\ class' = [parse_code_doc(input) EXCEPT
                             !.plantuml = parse_code_to_string(input)]
            /\ markdown_output' = process_input(input)
    /\ UNCHANGED <<args, input, child, conv, output_buffer, pending, fs, stdout>>

\* process_input_only_flags(input, args), one of the only-flags set
ProcessInputOnlyFlags ==
    /\ pc = "extract"
    /\ \E a \in OnlyFlagArgs :
           /\ args' = a
           /\ calls' = calls \o <<"process_input_only_flags">>
           /\ IF OnlyFlagsPanics(input, a)
              THEN pc' = "panicked" /\ UNCHANGED output_buffer
              ELSE /\ pc' = "returned"
                   /\ output_buffer' = process_input_only_flags(input, a)
    /\ UNCHANGED <<input, markdown_output, child, conv, pending, fs, stdout,
                   class>>

NextProcessing == ProcessInput \/ ProcessInputOnlyFlags

SpecProcessing == InitDoc /\ [][NextProcessing]_vars

-----------------------------------------------------------------------------
(* What a source file holds, read off the syntax tree *)

IsDocLine(attr) ==
    attr.meta = "NameValue" /\ attr.path = "doc" /\ attr.lit = "Str"

DocLines(attrs) == SelectSeq(attrs, IsDocLine)

IsStruct(item) == item.kind = "Struct"
StructsOf(file) == SelectSeq(file.items, IsStruct)

\* each line trimmed and terminated by a newline
RECURSIVE TrimmedLines(_)
TrimmedLines(lines) ==
    IF lines = <<>> THEN <<>>
    ELSE Trim(Head(lines).value) \o <<NL>> \o TrimmedLines(Tail(lines))

RECURSIVE Newlines(_)
Newlines(n) == IF n = 0 THEN <<>> ELSE <<NL>> \o Newlines(n - 1)

Returned == pc = "extracted"

OnlyStruct == StructsOf(input)[1]
LastStruct == StructsOf(input)[Len(StructsOf(input))]

AllStructsUndocumented ==
    \A i \in DOMAIN StructsOf(input) :
        DocLines(StructsOf(input)[i].attrs) = <<>>

IsTypedIdent(a) == a.arg = "Typed" /\ a.pat = "Ident"
IsMethod(m) == m.kind = "Method"

\* the tokens of a type, printed with one blank between two tokens
RECURSIVE SpaceSeparated(_)
SpaceSeparated(ty) ==
    IF Len(ty) <= 1 THEN ty
    ELSE <<Head(ty), " ">> \o SpaceSeparated(Tail(ty))

ParamTexts(inputs) ==
    LET typed == SelectSeq(inputs, IsTypedIdent)
    IN  [i \in DOMAIN typed |->
             typed[i].ident \o <<":", " ">> \o SpaceSeparated(typed[i].ty)]

\* the DocItem a method of the source stands for
ExpectedMethod(m) ==
    Method(m.ident \o <<"(">> \o Join(ParamTexts(m.inputs), <<",", " ">>)
               \o <<")">>,
           TrimmedLines(DocLines(m.attrs)))

ExpectedField(f) == Method(f.ident, TrimmedLines(DocLines(f.attrs)))

\* the methods of the inherent impl blocks of a file, in source order; with
\* ofType, only those of blocks for the type of that name
RECURSIVE InherentMethods(_, _, _)
InherentMethods(items, filtered, ofType) ==
    IF items = <<>> THEN <<>>
    ELSE LET it == Head(items)
             ms == SelectSeq(it.items, IsMethod)
         IN  (IF it.kind = "Impl" /\ it.trait_ = "None"
                 /\ (filtered => it.self_ty = ofType)
              THEN [i \in DOMAIN ms |-> ExpectedMethod(ms[i])]
              ELSE <<>>)
             \o InherentMethods(Tail(items), filtered, ofType)

C7_DocLinesThenOneBlankLine ==
    (Returned /\ Len(StructsOf(input)) = 1
              /\ DocLines(OnlyStruct.attrs) # <<>>)
        => class.documentation
               = TrimmedLines(DocLines(OnlyStruct.attrs)) \o <<NL>>

C7_Witness ==
    /\ Returned
    /\ Len(StructsOf(input)) = 1
    /\ OnlyStruct.attrs = <<DeriveAttr, DocAttr(<<" ", "a", " ", "b", " ">>)>>
    /\ class.documentation = <<"a", " ", "b", NL, NL>>

(* C8, as claimed: with several structures the Class describes the last
   one alone: its identifier, its doc comments, its named fields. *)
C8_LastStructAlone ==
    (Returned /\ Len(StructsOf(input)) >= 2)
        => /\ class.name = LastStruct.ident
           /\ class.documentation
                  = TrimmedLines(DocLines(LastStruct.attrs)) \o <<NL>>
           /\ class.fields
                  = (IF LastStruct.fields = "Named"
                     THEN [i \in DOMAIN LastStruct.named |->
                               ExpectedField(LastStruct.named[i])]
                     ELSE <<>>)

(* C9, as claimed: methods holds exactly the methods of the inherent impl
   blocks of the extracted structure, in source order; trait impls and
   impl blocks of another type add nothing. *)
C9_MethodsOfExtractedStructOnly ==
    (Returned /\ Len(StructsOf(input)) = 1)
        => class.methods = InherentMethods(input.items, TRUE, OnlyStruct.ident)

(* C10: each method DocItem is named ident(p1: T1, p2: T2) from its typed
   identifier parameters in order (receivers and other patterns left out,
   "ident()" without any), and documented by its own doc lines, trimmed
   and newline-terminated, without a further newline. *)
C10_MethodNameAndDocumentation ==
    Returned => class.methods = InherentMethods(input.items, FALSE, <<>>)

C10_Witness ==
    /\ Returned
    /\ \E i \in DOMAIN input.items :
           /\ input.items[i].kind = "Impl"
           /\ input.items[i].items
                  = <<ImplMethod(<<"m">>,
                                 <<TypedTuple(<<"T">>),
                                   TypedIdent(<<"y">>, <<"Vec", "<", "T", ">">>)>>,
                                 <<DocAttr(<<" ", "f", " ">>)>>)>>
    /\ class.methods
           = <<Method(<<"m", "(", "y", ":", " ", "Vec", " ", "<", " ", "T",
                        " ", ">", ")">>,
                      <<"f", NL>>)>>

-----------------------------------------------------------------------------
(* asciidoc_parser.rs: the Format Converter and its pandoc child process *)

SourceAttr == <<"[", "source", ",", "plantuml", "]">>

\* pandoc -f markdown -t asciidoc, line by line, on the documents
\* process_input assembles: "## x" becomes "== x", "### x" becomes
\* "=== x", a plantuml fence becomes a [source,plantuml] listing block
RECURSIVE PandocLines(_, _)
PandocLines(ls, in_code) ==
    IF ls = <<>> THEN <<>>
    ELSE LET l == Head(ls)
         IN  IF in_code
             THEN IF l = Fence
                  THEN <<Dashes, NL>> \o PandocLines(Tail(ls), FALSE)
                  ELSE l \o <<NL>> \o PandocLines(Tail(ls), TRUE)
             ELSE IF l = Fence \o <<"plantuml">>
                  THEN SourceAttr \o <<NL, Dashes, NL>>
                           \o PandocLines(Tail(ls), TRUE)
             ELSE IF StartsWith(l, Hashes(3) \o <<" ">>)
                  THEN <<"=", "=", "=">> \o SubSeq(l, 4, Len(l)) \o <<NL, NL>>
                           \o PandocLines(Tail(ls), FALSE)
             ELSE IF StartsWith(l, Hashes(2) \o <<" ">>)
                  THEN <<"=", "=">> \o SubSeq(l, 3, Len(l)) \o <<NL, NL>>
                           \o PandocLines(Tail(ls), FALSE)
             ELSE l \o <<NL>> \o PandocLines(Tail(ls), FALSE)

PandocAsciidoc(markdown_text) == PandocLines(Lines(markdown_text), FALSE)

\* what the child may write to its standard error stream
StderrTexts == {<<>>, <<"pandoc", ":", " ", "error">>}

\* Command::new(..).stdin(Stdio::piped()).stdout(Stdio::piped()).spawn():
\* a stream that is not configured is inherited from the parent
PandocStdio == [stdin |-> "piped", stdout |-> "piped", stderr |-> "inherit"]

\* Child::wait_with_output: the bytes of a stream are collected when the
\* stream is piped; an inherited stream yields no bytes
wait_with_output(stdio, written) ==
    IF stdio = "piped" THEN written ELSE <<>>

Ok(text)  == [state |-> "ok", text |-> text]
Err(text) == [state |-> "err", text |-> text]

\* convert_with_pandoc, lines 96-105: the io::Result made of the Output
convert_result(c) ==
    IF c.success THEN Ok(c.stdout) ELSE Err(c.stderr_captured)

\* variant: only the first occurrence is rewritten
parse_from_markdown_result_first_only(r) ==
    IF r.state = "ok"
    THEN LET found == {i \in DOMAIN r.text :
                           StartsWith(SubSeq(r.text, i, Len(r.text)), SourceAttr)}
         IN  IF found = {} THEN r
             ELSE Ok(SubSeq(r.text, 1, Min(found) - 1) \o PlantumlAttr
                         \o SubSeq(r.text, Min(found) + Len(SourceAttr),
                                   Len(r.text)))
    ELSE r

\* parse_from_markdown: the match on the result of convert_with_pandoc
parse_from_markdown_result(r) ==
    IF r.state = "ok"
    THEN Ok(Replace(r.text, SourceAttr, PlantumlAttr))
    ELSE r

-----------------------------------------------------------------------------
(* The converter's output handled on its own: parse_from_markdown on what
   the child wrote, then lines 51-56 of Processing::start *)

MaxChunks == 3

\* a listing block as pandoc writes it, with the given attribute line and
\* line terminator
ListingBlock(attr, eol) ==
    attr \o eol \o <<Dashes>> \o eol \o <<"@startuml">> \o eol
         \o <<"class", " ", "A">> \o eol \o <<"@enduml">> \o eol
         \o <<Dashes>> \o eol

\* pieces of AsciiDoc text: whole blocks, lines, and parts of lines
Chunks ==
    {ListingBlock(SourceAttr, <<NL>>),
     ListingBlock(PlantumlAttr, <<"\r", NL>>),
     SourceAttr,
     <<"[", "source", ",">>,
     <<"plantuml", "]">>,
     <<"=", "=", " ", "A", NL>>,
     <<" ", "@startuml", " ", "x", NL>>,
     <<" ", "@enduml", NL>>,
     <<"@enduml", NL, Dashes>>,
     <<"y", NL>>,
     \* a diagram block that holds no @enduml line
     PlantumlAttr \o <<NL, Dashes, NL, "@startmindmap", NL, Dashes, NL>>}

ConverterOutputs ==
    {Flatten(cs) : cs \in SeqsUpTo(Chunks, MaxChunks)}

InitConvert ==
    /\ args \in {DefaultCli, [DefaultCli EXCEPT !.format = "AsciidocPlantuml"]}
    /\ child \in {[state |-> "exited", success |-> TRUE, stdout |-> text,
                    stderr_written |-> <<>>, stderr_captured |-> <<>>] :
                       text \in ConverterOutputs}
                 \cup {[state |-> "exited", success |-> FALSE, stdout |-> <<>>,
                        stderr_written |-> written,
                        stderr_captured |-> wait_with_output(PandocStdio.stderr,
                                                             written)] :
                           written \in StderrTexts}
    /\ pc = "waited"
    /\ input = Malformed
    /\ calls = <<>>
    /\ markdown_output = <<>>
    /\ conv = NoConv
    /\ output_buffer = EmptyMap
    /\ pending = {}
    /\ fs = EmptyMap
    /\ stdout = <<>>
    /\ class = PanickedClass

-----------------------------------------------------------------------------
(* main.rs *)

\* the index of the last occurrence of token t in s, 0 without one
RECURSIVE LastIndexOf(_, _)
LastIndexOf(s, t) ==
    IF s = <<>> THEN 0
    ELSE IF s[Len(s)] = t THEN Len(s)
    ELSE LastIndexOf(SubSeq(s, 1, Len(s) - 1), t)

\* Path::file_name: the last component of a path
FileName(path) == SubSeq(path, LastIndexOf(path, "/") + 1, Len(path))

\* Path::file_stem: the file name without its last extension
file_stem(path) ==
    LET name == FileName(path)
        dot  == LastIndexOf(name, ".")
    IN  IF dot <= 1 THEN name ELSE SubSeq(name, 1, dot - 1)

get_output_format_extension(format) ==
    CASE format = "Asciidoc"         -> <<".", "adoc">>
      [] format = "AsciidocPlantuml" -> <<".", "puml">>
      [] format = "Markdown"         -> <<".", "md">>
      [] format = "Plantuml"         -> <<".", "puml">>

\* write_output, lines 136-141: the name and the content written for one
\* entry of the bundle
output_file_name(a, format) ==
    a.file_name_prefix.v \o file_stem(a.output_file.v)
        \o get_output_format_extension(format)

output_content(a, bundle, format) ==
    IF "AsciidocPlantuml" \in DOMAIN bundle /\ format = "Asciidoc"
    THEN Replace(bundle[format], <<"FILENAME">>, file_stem(a.output_file.v))
    ELSE bundle[format]

\* the file system with content stored under name
WithFile(files, name, content) ==
    [n \in DOMAIN files \cup {name} |-> IF n = name THEN content ELSE files[n]]

\* the orders in which a HashMap may hand out its entries
Orders(S) ==
    {o \in [1..Cardinality(S) -> S] : \A x \in S : \E i \in DOMAIN o : o[i] = x}

-----------------------------------------------------------------------------
(* A run of the program: main, Processing::start, write_output *)

\* the command lines clap accepts: the two only-flags exclude each other
\* (OnlyFlags is a group with multiple = false), the prefix defaults to ""
InputFiles  == {None, Some(<<"-">>), Some(<<"src", "/", "lib", ".", "rs">>)}
OutputFiles == {None, Some(<<"out", ".", "adoc">>),
                Some(<<"docs", "/", "out", ".", "adoc">>)}
Prefixes    == {Some(<<>>), Some(<<"p_">>)}

CommandLines ==
    {Cli(po, mo, inf, outf, fmt, pn, pre) :
         po \in BOOLEAN, mo \in BOOLEAN, inf \in InputFiles,
         outf \in OutputFiles, fmt \in OutputFormat, pn \in BOOLEAN,
         pre \in Prefixes}

\* /// i   struct A { /// d  x: T, y: U }   impl A { new, K, get }
DocumentedA ==
    ItemStruct(<<"A">>, <<DocAttr(<<" ", "i">>), DeriveAttr>>, "Named", NamedA)

\* the source documents a run may be given
SourceDocuments ==
    {Malformed,
     Parsed(<<>>),
     Parsed(<<DocumentedA,
              ItemImpl("None", <<"A">>, <<MethodNew, ImplConst(<<"K">>), MethodGet>>)>>),
     Parsed(<<ItemStruct(<<"B">>, <<BadAttr>>, "Unit", <<>>)>>),
     \* /// @startuml   struct C;
     Parsed(<<ItemStruct(<<"C">>, <<DocAttr(<<" ", "@startuml">>)>>,
                         "Unit", <<>>)>>)}

Init ==
    /\ args \in {a \in CommandLines : ~(a.plantuml_only /\ a.markdown_only)}
    /\ input = Malformed
    /\ pc = "main"
    /\ calls = <<>>
    /\ markdown_output = <<>>
    /\ child = NoChild
    /\ conv = NoConv
    /\ output_buffer = EmptyMap
    /\ pending = {}
    /\ fs = EmptyMap
    /\ stdout = <<>>
    /\ class = PanickedClass

\* the exit status of the process: 101 after a panic, 2 after clap's
\* error exit, 0 after main has returned; -1 while it runs
ExitCode ==
    CASE pc = "panicked" -> 101
      [] pc = "exited"   -> 2
      [] pc = "done"     -> 0
      [] OTHER           -> -1

\* variant: without an input file the names are not preserved and standard
\* input is read
HandlePreserveNamesLenient ==
    /\ pc = "main"
    /\ IF ~args.preserve_names \/ ~args.input_file.some
       THEN pc' = "read_input" /\ args' = args
       ELSE IF args.input_file.v = <<"-">>
       THEN pc' = "exited" /\ args' = args
       ELSE /\ pc' = "read_input"
            /\ args' = [args EXCEPT !.output_file =
                            Some(file_stem(args.input_file.v)
                                 \o get_output_format_extension(args.format))]
    /\ UNCHANGED <<input, calls, markdown_output, child, conv, output_buffer,
                   pending, fs, stdout, class>>

\* handle_preserve_names_and_set_output_file
HandlePreserveNames ==
    /\ pc = "main"
    /\ IF ~args.preserve_names
       THEN pc' = "read_input" /\ args' = args
       ELSE IF ~args.input_file.some
       THEN pc' = "panicked" /\ args' = args
       ELSE IF args.input_file.v = <<"-">>
       THEN pc' = "exited" /\ args' = args
       ELSE /\ pc' = "read_input"
            /\ args' = [args EXCEPT !.output_file =
                            Some(file_stem(args.input_file.v)
                                 \o get_output_format_extension(args.format))]
    /\ UNCHANGED <<input, calls, markdown_output, child, conv, output_buffer,
                   pending, fs, stdout, class>>

\* read_input: the file, or standard input, read to its end
ReadInput ==
    /\ pc = "read_input"
    /\ \E document \in SourceDocuments :
           /\ input' = document
           /\ pc' = "start"
    /\ UNCHANGED <<args, calls, markdown_output, child, conv, output_buffer,
                   pending, fs, stdout, class>>

\* read_input: File::open or read_to_string fails
ReadInputFails ==
    /\ pc = "read_input"
    /\ args.input_file.some
    /\ pc' = "panicked"
    /\ UNCHANGED <<args, input, calls, markdown_output, child, conv,
                   output_buffer, pending, fs, stdout, class>>

\* Processing::start, line 40: process_input(input), whatever the flags
StartProcessInput ==
    /\ pc = "start"
    /\ calls' = calls \o <<"process_input", "parse_code_to_string">>
                      \o (IF PlantumlPanics(input) THEN <<>>
                          ELSE <<"parse_code_doc">>)
    /\ IF ProcessInputPanics(input)
       THEN pc' = "panicked" /\ UNCHANGED <<markdown_output, class>>
       ELSE /\ pc' = "start_branch"
            /\ class' = [parse_code_doc(input) EXCEPT
                             !.plantuml = parse_code_to_string(input)]
            /\ markdown_output' = process_input(input)
    /\ UNCHANGED <<args, input, child, conv, output_buffer, pending, fs, stdout>>

\* Processing::start, lines 43-44
StartMarkdown ==
    /\ pc = "start_branch"
    /\ is_no_only_flag_set(args)
    /\ args.format = "Markdown"
    /\ output_buffer' = [f \in {"Markdown"} |-> markdown_output]
    /\ pc' = "returned"
    /\ UNCHANGED <<args, input, calls, markdown_output, child, conv, pending,
                   fs, stdout, class>>

\* Processing::start, line 59: process_input_only_flags
StartOnlyFlags ==
    /\ pc = "start_branch"
    /\ ~is_no_only_flag_set(args)
    /\ calls' = calls \o <<"process_input_only_flags">> \o only_flags_calls(args)
    /\ IF OnlyFlagsPanics(input, args)
       THEN pc' = "panicked" /\ UNCHANGED output_buffer
       ELSE /\ pc' = "returned"
            /\ output_buffer' = process_input_only_flags(input, args)
    /\ UNCHANGED <<args, input, markdown_output, child, conv, pending, fs,
                   stdout, class>>

\* convert_with_pandoc, lines 82-89: the child is spawned, or spawn fails
SpawnPandoc ==
    /\ pc = "start_branch"
    /\ is_no_only_flag_set(args)
    /\ args.format # "Markdown"
    /\ calls' = calls \o <<"parse_from_markdown", "spawn">>
    /\ \/ /\ child' = [NoChild EXCEPT !.state = "running"]
          /\ pc' = "spawned"
          /\ conv' = conv
       \/ /\ child' = [NoChild EXCEPT !.state = "spawn_failed"]
          /\ conv' = parse_from_markdown_result(
                         Err(<<"No such file or directory">>))
          /\ pc' = "converted"
    /\ UNCHANGED <<args, input, markdown_output, output_buffer, pending, fs,
                   stdout, class>>

\* convert_with_pandoc, lines 91-96: the input is written to the child,
\* the child runs to its end and its output is collected
PandocRuns ==
    /\ pc = "spawned"
    /\ \E success \in BOOLEAN, written \in StderrTexts :
           child' = [state |-> "exited",
                     success |-> success,
                     stdout |-> wait_with_output(
                                    PandocStdio.stdout,
                                    IF success
                                    THEN PandocAsciidoc(markdown_output)
                                    ELSE <<>>),
                     stderr_written |-> written,
                     stderr_captured |-> wait_with_output(PandocStdio.stderr,
                                                          written)]
    /\ pc' = "waited"
    /\ UNCHANGED <<args, input, calls, markdown_output, conv, output_buffer,
                   pending, fs, stdout, class>>

\* convert_with_pandoc, line 93: the child has gone before it took its input
PandocStdinFails ==
    /\ pc = "spawned"
    /\ child' = [child EXCEPT !.state = "gone"]
    /\ conv' = parse_from_markdown_result(Err(<<"Broken pipe">>))
    /\ pc' = "converted"
    /\ UNCHANGED <<args, input, calls, markdown_output, output_buffer,
                   pending, fs, stdout, class>>

\* convert_with_pandoc, lines 98-105, and parse_from_markdown
ParseFromMarkdown ==
    /\ pc = "waited"
    /\ conv' = parse_from_markdown_result(convert_result(child))
    /\ pc' = "converted"
    /\ UNCHANGED <<args, input, calls, markdown_output, child, output_buffer,
                   pending, fs, stdout, class>>

\* variant: a failed conversion is passed over and the bundle made of an
\* empty text
StartAsciidocLenient ==
    /\ pc = "converted"
    /\ output_buffer' = asciidoc_bundle(args.format,
                                        IF conv.state = "err" THEN <<>>
                                        ELSE conv.text)
    /\ pc' = "returned"
    /\ UNCHANGED <<args, input, calls, markdown_output, child, conv, pending,
                   fs, stdout, class>>

\* Processing::start, lines 49-56: expect, then the bundle
StartAsciidoc ==
    /\ pc = "converted"
    /\ IF conv.state = "err"
       THEN pc' = "panicked" /\ UNCHANGED output_buffer
       ELSE /\ output_buffer' = asciidoc_bundle(args.format, conv.text)
            /\ pc' = "returned"
    /\ UNCHANGED <<args, input, calls, markdown_output, child, conv, pending,
                   fs, stdout, class>>

\* write_output with an output file: the loop is entered
WriteOutputToFiles ==
    /\ pc = "returned"
    /\ args.output_file.some
    /\ pending' = DOMAIN output_buffer
    /\ pc' = "writing"
    /\ UNCHANGED <<args, input, calls, markdown_output, child, conv,
                   output_buffer, fs, stdout, class>>

\* write_output, lines 136-146: one turn of the loop, on any entry the
\* HashMap hands out next
WriteEntry ==
    /\ pc = "writing"
    /\ \E format \in pending :
           LET name == output_file_name(args, format)
               content == output_content(args, output_buffer, format)
           IN  \/ /\ fs' = WithFile(fs, name, content)
                  /\ pending' = pending \ {format}
                  /\ pc' = IF pending' = {} THEN "done" ELSE "writing"
               \/ \* File::create fails
                  /\ fs' = fs
                  /\ pending' = pending
                  /\ pc' = "panicked"
               \/ \* write_all fails: the file is there, created empty
                  /\ fs' = WithFile(fs, name, <<>>)
                  /\ pending' = pending
                  /\ pc' = "panicked"
    /\ UNCHANGED <<args, input, calls, markdown_output, child, conv,
                   output_buffer, stdout, class>>

\* write_output without an output file: the values, joined by newlines
WriteOutputToStdout ==
    /\ pc = "returned"
    /\ ~args.output_file.some
    /\ \/ /\ \E order \in Orders(DOMAIN output_buffer) :
                 stdout' = Join([i \in DOMAIN order |-> output_buffer[order[i]]],
                                <<NL>>)
          /\ pc' = "done"
       \/ /\ stdout' = stdout
          /\ pc' = "panicked"
    /\ UNCHANGED <<args, input, calls, markdown_output, child, conv,
                   output_buffer, pending, fs, class>>

Next ==
    \/ HandlePreserveNames
    \/ ReadInput
    \/ ReadInputFails
    \/ StartProcessInput
    \/ StartMarkdown
    \/ StartOnlyFlags
    \/ SpawnPandoc
    \/ PandocRuns
    \/ PandocStdinFails
    \/ ParseFromMarkdown
    \/ StartAsciidoc
    \/ WriteOutputToFiles
    \/ WriteEntry
    \/ WriteOutputToStdout

Spec == Init /\ [][Next]_vars

\* the converter's output handled on its own
NextConvert == ParseFromMarkdown \/ StartAsciidoc

SpecConvert == InitConvert /\ [][NextConvert]_vars

-----------------------------------------------------------------------------
(* convert_with_pandoc, lines 91-96, step by step: the parent writes the
   whole input to the child's stdin (write_all), then closes it and reads
   the child's stdout to its end (wait_with_output); the two pipes hold a
   bounded number of bytes, a write to a full pipe blocks, and so does a
   read from an empty one *)

MaxInput == 4
MaxCapacity == 2

\* a child that writes what it has made of its input before it reads on
\* ("streaming"), or one that reads its input to the end first ("buffering")
ChildKinds == {"streaming", "buffering"}

PipedChild(kind, stdin_capacity, stdout_capacity) ==
    [state |-> "running", success |-> FALSE, stdout |-> <<>>,
     stderr_written |-> <<>>, stderr_captured |-> <<>>,
     kind |-> kind,
     stdin_capacity |-> stdin_capacity, stdout_capacity |-> stdout_capacity,
     written |-> 0, stdin_pipe |-> 0, stdin_closed |-> FALSE,
     pending_out |-> 0, stdout_pipe |-> 0]

InitPipe ==
    /\ markdown_output \in {[i \in 1..n |-> "m"] : n \in 0..MaxInput}
    /\ child \in {PipedChild(kind, cin, cout) :
                      kind \in ChildKinds,
                      cin \in 1..MaxCapacity, cout \in 1..MaxCapacity}
    /\ pc = "spawned"
    /\ args = DefaultCli
    /\ input = Malformed
    /\ calls = <<"parse_from_markdown", "spawn">>
    /\ conv = NoConv
    /\ output_buffer = EmptyMap
    /\ pending = {}
    /\ fs = EmptyMap
    /\ stdout = <<>>
    /\ class = PanickedClass

PipeUnchanged ==
    UNCHANGED <<args, input, calls, markdown_output, conv, output_buffer,
                pending, fs, stdout, class>>

\* stdin.write_all(input.as_bytes()): one more byte goes into the pipe,
\* when the pipe has room for it
ParentWrites ==
    /\ pc = "spawned"
    /\ child.written < Len(markdown_output)
    /\ child.stdin_pipe < child.stdin_capacity
    /\ child' = [child EXCEPT !.written = @ + 1, !.stdin_pipe = @ + 1]
    /\ pc' = pc
    /\ PipeUnchanged

\* write_all has returned; wait_with_output drops stdin and starts reading
ParentClosesStdin ==
    /\ pc = "spawned"
    /\ child.written = Len(markdown_output)
    /\ child' = [child EXCEPT !.stdin_closed = TRUE]
    /\ pc' = "reading"
    /\ PipeUnchanged

\* wait_with_output: read_to_end on the child's stdout
ParentReads ==
    /\ pc = "reading"
    /\ child.stdout_pipe > 0
    /\ child' = [child EXCEPT !.stdout_pipe = @ - 1,
                              !.stdout = Append(@, "a")]
    /\ pc' = pc
    /\ PipeUnchanged

\* wait_with_output returns: end of file on stdout, the child has exited
ParentObtainsOutput ==
    /\ pc = "reading"
    /\ child.stdout_pipe = 0
    /\ child.state = "exited"
    /\ child' = child
    /\ pc' = "waited"
    /\ PipeUnchanged

\* the child reads a byte of its input: the streaming child when it has
\* written what it made of the bytes before, the buffering child at any time
ChildReads ==
    /\ child.state = "running"
    /\ child.stdin_pipe > 0
    /\ child.kind = "streaming" => child.pending_out = 0
    /\ child' = [child EXCEPT !.stdin_pipe = @ - 1, !.pending_out = @ + 1]
    /\ pc' = pc
    /\ PipeUnchanged

\* the child writes a byte of its output, when the pipe has room for it:
\* the buffering child after the end of its input only
ChildWrites ==
    /\ child.state = "running"
    /\ child.pending_out > 0
    /\ child.stdout_pipe < child.stdout_capacity
    /\ child.kind = "buffering" => child.stdin_closed /\ child.stdin_pipe = 0
    /\ child' = [child EXCEPT !.pending_out = @ - 1, !.stdout_pipe = @ + 1]
    /\ pc' = pc
    /\ PipeUnchanged

\* the child exits after the end of its input, its output written
ChildExits ==
    /\ child.state = "running"
    /\ child.stdin_closed /\ child.stdin_pipe = 0
    /\ child.pending_out = 0
    /\ child' = [child EXCEPT !.state = "exited", !.success = TRUE]
    /\ pc' = pc
    /\ PipeUnchanged

NextPipe ==
    \/ ParentWrites
    \/ ParentClosesStdin
    \/ ParentReads
    \/ ParentObtainsOutput
    \/ ChildReads
    \/ ChildWrites
    \/ ChildExits

\* parent and child are processes of their own: each takes its step when
\* it stays possible
SpecPipe ==
    /\ InitPipe
    /\ [][NextPipe]_vars
    /\ WF_vars(ParentWrites) /\ WF_vars(ParentClosesStdin)
    /\ WF_vars(ParentReads) /\ WF_vars(ParentObtainsOutput)
    /\ WF_vars(ChildReads) /\ WF_vars(ChildWrites) /\ WF_vars(ChildExits)

-----------------------------------------------------------------------------
(* Claims about a run *)

CombinedMode == is_no_only_flag_set(args) /\ args.format = "AsciidocPlantuml"

\* the key set of the bundle start has returned, with the two keys of the
\* combined mode given
KeySetByMode(combinedKeys) ==
    pc = "returned" =>
        IF args.plantuml_only THEN DOMAIN output_buffer = {"Plantuml"}
        ELSE IF args.markdown_only THEN DOMAIN output_buffer = {"Markdown"}
        ELSE IF args.format = "Markdown" THEN DOMAIN output_buffer = {"Markdown"}
        ELSE IF args.format = "Asciidoc" THEN DOMAIN output_buffer = {"Asciidoc"}
        ELSE IF args.format = "AsciidocPlantuml"
             THEN DOMAIN output_buffer = combinedKeys
        ELSE Cardinality(DOMAIN output_buffer) = 1

(* C1, as claimed: one key per single-format mode (Plantuml with the
   diagram-only flag, Markdown with the extraction-only flag or format
   Markdown, Asciidoc with format Asciidoc), and the two keys Asciidoc and
   Plantuml (DiagramOnly) in combined mode. *)
C1_KeysAsciidocAndPlantuml == KeySetByMode({"Asciidoc", "Plantuml"})

(* C1, amended: as claimed for the single-format modes; in combined mode
   the two keys are Asciidoc and AsciidocPlantuml, the diagram being filed
   under the combined format's own key. *)
C1_KeysAsciidocAndAsciidocPlantuml ==
    KeySetByMode({"Asciidoc", "AsciidocPlantuml"})

C1_Witness ==
    /\ pc = "returned"
    /\ CombinedMode
    /\ DOMAIN output_buffer = {"Asciidoc", "AsciidocPlantuml"}
    /\ Contains(output_buffer["AsciidocPlantuml"], <<"class", " ", "\"", "A", "\"">>)

(* C2, as claimed: with the diagram-only flag only the Diagram Renderer is
   invoked; the Doc Extractor, the Markdown Assembler and the Format
   Converter are not invoked at any point of the run. *)
C2_DiagramOnlyInvokesRendererOnly ==
    args.plantuml_only =>
        \A i \in DOMAIN calls :
            calls[i] \notin {"parse_code_doc", "process_input",
                             "parse_from_markdown", "spawn"}

(* C3, as claimed: when the converter process exits with a non-zero
   status, parse_from_markdown returns an error whose message is the text
   the process wrote to its standard error stream. *)
C3_ErrorCarriesStderrText ==
    (child.state = "exited" /\ ~child.success /\ conv.state # "none")
        => conv.state = "err" /\ conv.text = child.stderr_written

(* C4, as claimed: a run that fails at any stage, a failure to create or
   write an output file included, leaves no output behind: no file on
   disk, nothing on standard output. *)
C4_FailedRunLeavesNoOutput ==
    pc = "panicked" => fs = EmptyMap /\ stdout = <<>>

\* the files an AsciiDoc text references through plantuml::<name>.puml[]
DiagramReferences(text) ==
    LET starts == {i \in DOMAIN text : text[i] = "plantuml::"}
        close(i) == Min({j \in i..Len(text) : text[j] = ".puml[]"} \cup {Len(text) + 1})
    IN  {SubSeq(text, i + 1, close(i) - 1) \o <<".", "puml">> : i \in starts}

EndsWith(s, p) ==
    Len(s) >= Len(p) /\ SubSeq(s, Len(s) - Len(p) + 1, Len(s)) = p

(* C5, as claimed: in combined mode with an output file, whatever the base
   name and the prefix, the AsciiDoc file written references exactly one
   diagram file, that file is the .puml file written by the same run, and
   its content is the diagram value of the bundle. *)
C5_AsciidocReferencesWrittenDiagram ==
    (pc = "done" /\ CombinedMode /\ args.output_file.some)
        => \E adoc \in DOMAIN fs :
               /\ EndsWith(adoc, <<".", "adoc">>)
               /\ Cardinality(DiagramReferences(fs[adoc])) = 1
               /\ \A ref \in DiagramReferences(fs[adoc]) :
                      /\ ref \in DOMAIN fs
                      /\ fs[ref] = output_buffer["AsciidocPlantuml"]

-----------------------------------------------------------------------------
(* Claims about the functions of processing.rs *)

HeadingMarker == <<"#", "#", " ">>
SubsectionMarker == <<"#", "#", "#", " ">>

Subsection(method) ==
    <<NL>> \o SubsectionMarker \o method.name \o <<NL>>
        \o method.documentation \o <<NL>>

(* C11: process_input returns '## ' name '\n', the plantuml fence around
   the diagram text, '\n' documentation '\n', then one '\n### ' name '\n'
   documentation '\n' per extracted method, in extraction order; no field
   documentation is emitted, and with zero methods the text ends with the
   documentation part. *)
C11_MarkdownAssembled ==
    pc = "assembled" =>
        /\ markdown_output
               = HeadingMarker \o class.name \o <<NL>>
                     \o Fence \o <<"plantuml", NL>> \o class.plantuml
                     \o <<NL>> \o Fence \o <<NL>>
                     \o <<NL>> \o class.documentation \o <<NL>>
                     \o Flatten([i \in DOMAIN class.methods |->
                                     Subsection(class.methods[i])])
        /\ \A i \in DOMAIN class.fields :
               class.fields[i].documentation # <<>>
                   => ~Contains(markdown_output, class.fields[i].documentation)
        /\ class.methods = <<>>
               => EndsWith(markdown_output,
                           Fence \o <<NL, NL>> \o class.documentation \o <<NL>>)

C11_Witness ==
    /\ pc = "assembled"
    /\ Len(class.methods) >= 2
    /\ \E i \in DOMAIN class.fields : class.fields[i].documentation # <<>>
    /\ Contains(markdown_output,
                <<NL>> \o SubsectionMarker \o <<"get", "(", ")", NL, NL>>)

\* name and documentation as the source file gives them: the identifiers
\* of its structs, and per struct its trimmed doc lines and one newline
SourceName == Flatten([i \in DOMAIN StructsOf(input) |-> StructsOf(input)[i].ident])
SourceDocumentation ==
    Flatten([i \in DOMAIN StructsOf(input) |->
                 TrimmedLines(DocLines(StructsOf(input)[i].attrs)) \o <<NL>>])

SomeDocLineContains(marker) ==
    \E i \in DOMAIN StructsOf(input) :
        \E j \in DOMAIN DocLines(StructsOf(input)[i].attrs) :
            Contains(DocLines(StructsOf(input)[i].attrs)[j].value, marker)

ExtractionOnlyReturned == pc = "returned" /\ args.markdown_only

(* C12, as claimed: in extraction-only mode the bundle is {Markdown: text},
   text always contains the heading marker '## ' and never contains
   '@startuml'. *)
C12_NeverContainsStartuml ==
    ExtractionOnlyReturned =>
        /\ DOMAIN output_buffer = {"Markdown"}
        /\ Contains(output_buffer["Markdown"], HeadingMarker)
        /\ ~Contains(output_buffer["Markdown"], StartTag)

(* C12, amended: in extraction-only mode the bundle is {Markdown: text},
   text is the headline '## ' name, an empty line and the structure
   documentation, without diagram and without method subsections; it
   contains '@startuml' only where a doc comment of the input does. *)
C12_HeadlineAndDocumentationOnly ==
    ExtractionOnlyReturned =>
        /\ DOMAIN output_buffer = {"Markdown"}
        /\ output_buffer["Markdown"]
               = HeadingMarker \o SourceName \o <<NL, NL>> \o SourceDocumentation
        /\ Contains(output_buffer["Markdown"], StartTag)
               => SomeDocLineContains(StartTag)

C12_Witness ==
    /\ ExtractionOnlyReturned
    /\ Contains(output_buffer["Markdown"], StartTag)
    /\ \E i \in DOMAIN input.items : input.items[i].kind = "Impl"

DiagramOnlyReturned == pc = "returned" /\ args.plantuml_only

(* C13: in diagram-only mode the single value of the bundle is the output
   of the Diagram Renderer, unmodified: it begins with '@startuml', ends
   with '@enduml' and never contains the heading marker '## '; the empty
   input yields '@startuml\n\n\n\n@enduml'. *)
C13_DiagramPassedThrough ==
    DiagramOnlyReturned =>
        /\ DOMAIN output_buffer = {"Plantuml"}
        /\ output_buffer["Plantuml"] = parse_code_to_string(input)
        /\ StartsWith(output_buffer["Plantuml"], StartTag)
        /\ EndsWith(output_buffer["Plantuml"], EndTag)
        /\ ~Contains(output_buffer["Plantuml"], HeadingMarker)
        /\ input.items = <<>>
               => output_buffer["Plantuml"]
                      = <<"@startuml", NL, NL, NL, NL, "@enduml">>

C13_Witness ==
    /\ DiagramOnlyReturned
    /\ SomeDocLineContains(HeadingMarker)
    /\ \E i \in DOMAIN StructsOf(input) : StructsOf(input)[i].fields = "Named"
    /\ Contains(output_buffer["Plantuml"], <<"class", " ", "\"", "C", "\"">>)

-----------------------------------------------------------------------------
(* Claims about the converter's output *)

\* where the literal occurs in a text
Occurrences(text, literal) ==
    {i \in DOMAIN text : i + Len(literal) - 1 <= Len(text)
                         /\ SubSeq(text, i, i + Len(literal) - 1) = literal}

\* the text made of the positions kept, in their order
Keeping(text, keep) ==
    [n \in 1..Cardinality(keep) |->
         text[CHOOSE k \in keep : Cardinality({j \in keep : j <= k}) = n]]

\* "[source,plantuml]" with its tokens source and "," dropped is "[plantuml]"
WithoutSourceTokens(text) ==
    Keeping(text, {k \in DOMAIN text :
                       \A i \in Occurrences(text, SourceAttr) :
                           k \notin {i + 1, i + 2}})

ConverterSucceeded ==
    child.state = "exited" /\ child.success /\ conv.state # "none"

(* C14: when the converter succeeds, parse_from_markdown returns its
   standard output with every occurrence of '[source,plantuml]' rewritten
   to '[plantuml]' and every other character unchanged; the result never
   contains '[source,plantuml]'. *)
C14_SourceAttributeRewritten ==
    ConverterSucceeded =>
        /\ conv.state = "ok"
        /\ conv.text = WithoutSourceTokens(child.stdout)
        /\ ~Contains(conv.text, SourceAttr)

C14_Witness ==
    /\ ConverterSucceeded
    /\ Cardinality(Occurrences(child.stdout, SourceAttr)) >= 2
    /\ Contains(child.stdout, <<"[", "source", ",", "[", "source", ",">>)
    /\ Cardinality(Occurrences(conv.text, PlantumlAttr)) >= 2

CombinedReturned ==
    pc = "returned" /\ CombinedMode /\ conv.state = "ok"

StartLines(ls) == {i \in DOMAIN ls : StartsWith(Trim(ls[i]), StartTag)}
EndLinesAfter(ls, s) == {j \in DOMAIN ls : j > s /\ StartsWith(Trim(ls[j]), EndTag)}

\* the lines from the first start line up to, not including, the first
\* end line after it
DiagramLines(ls) ==
    IF StartLines(ls) = {} THEN <<>>
    ELSE LET s == Min(StartLines(ls))
             e == Min(EndLinesAfter(ls, s) \cup {Len(ls) + 1})
         IN  SubSeq(ls, s, e - 1)

(* C15: extract_plantuml_from_asciidoc returns the lines from the first
   line whose trimmed text starts with '@startuml' up to but not including
   the first later line whose trimmed text starts with '@enduml', joined
   with newlines and followed by a trailing '@enduml' line; no line before
   the start marker and no line from the end marker onward is in it. *)
C15_DiagramLinesExtracted ==
    CombinedReturned =>
        output_buffer["AsciidocPlantuml"]
            = Join(DiagramLines(Lines(conv.text)), <<NL>>)
                  \o <<NL, "@enduml", NL>>

C15_Witness ==
    /\ CombinedReturned
    /\ LET ls == Lines(conv.text)
       IN  /\ StartLines(ls) # {}
           /\ Min(StartLines(ls)) > 1
           /\ EndLinesAfter(ls, Min(StartLines(ls))) # {}
           /\ Min(EndLinesAfter(ls, Min(StartLines(ls)))) < Len(ls)
           /\ ls[Min(StartLines(ls))] # StartTag
           /\ Len(DiagramLines(ls)) >= 2

-----------------------------------------------------------------------------
(* Claims about the combined mode of a run *)

\* the listing block that holds the diagram in the converted text
EmbeddedDiagram ==
    PlantumlAttr \o <<NL, Dashes, NL>> \o class.plantuml \o <<NL, Dashes>>

HasStartLine(text) == StartLines(Lines(text)) # {}

(* C16, as claimed: in combined mode the '[plantuml]' listing block of the
   Asciidoc value is replaced by 'plantuml::FILENAME.puml[]', so that the
   value contains the directive and no '@startuml' line, and the diagram
   value is extracted from the text as it was before the replacement. *)
C16_NoStartLineLeft ==
    CombinedReturned =>
        /\ Contains(output_buffer["Asciidoc"], IncludeDirective)
        /\ ~HasStartLine(output_buffer["Asciidoc"])
        /\ output_buffer["AsciidocPlantuml"]
               = extract_plantuml_from_asciidoc(conv.text)

(* C16, amended: in combined mode the '[plantuml]' listing block of the
   Asciidoc value is replaced by 'plantuml::FILENAME.puml[]': the value is
   the converted text with the block of the embedded diagram replaced, it
   contains the directive, and a '@startuml' line is left in it only where
   a doc comment of the input holds one; the diagram value is extracted
   from the text as it was before the replacement. *)
C16_EmbeddedDiagramReplaced ==
    CombinedReturned =>
        /\ Cardinality(Occurrences(conv.text, EmbeddedDiagram)) = 1
        /\ output_buffer["Asciidoc"]
               = Replace(conv.text, EmbeddedDiagram, IncludeDirective)
        /\ Contains(output_buffer["Asciidoc"], IncludeDirective)
        /\ ~Contains(output_buffer["Asciidoc"], EmbeddedDiagram)
        /\ HasStartLine(output_buffer["Asciidoc"])
               => SomeDocLineContains(StartTag)
        /\ output_buffer["AsciidocPlantuml"]
               = extract_plantuml_from_asciidoc(conv.text)
        /\ output_buffer["AsciidocPlantuml"] = class.plantuml \o <<NL>>

C16_Witness ==
    /\ CombinedReturned
    /\ Len(StructsOf(input)) >= 1
    /\ HasStartLine(output_buffer["Asciidoc"])
    /\ Contains(output_buffer["Asciidoc"], IncludeDirective)
    /\ Contains(output_buffer["AsciidocPlantuml"], <<"class", " ", "\"", "C", "\"">>)

-----------------------------------------------------------------------------
(* Claims about failures of a run *)

Called(name) == \E i \in DOMAIN calls : calls[i] = name

\* the input has been read and syn cannot parse it
MalformedInputRead == input = Malformed /\ (pc = "start" \/ calls # <<>>)

(* C17: in every mode, an input that is not valid source syntax aborts the
   run: start returns no bundle, the converter is never started, nothing
   is written to an output file or to standard output. *)
C17_MalformedInputAborts ==
    MalformedInputRead =>
        /\ pc \in {"start", "panicked"}
        /\ output_buffer = EmptyMap
        /\ child.state = "none" /\ ~Called("spawn")
        /\ fs = EmptyMap
        /\ stdout = <<>>

C17_Witness ==
    /\ MalformedInputRead
    /\ pc = "panicked"
    /\ args.plantuml_only
    /\ args.output_file.some

Count(name) == Cardinality({i \in DOMAIN calls : calls[i] = name})

\* the parser, the renderer or the converter has failed
PipelineFailed ==
    \/ conv.state = "err" /\ pc # "converted"
    \/ pc \notin {"main", "read_input", "start", "exited"}
           /\ ~Called("process_input_only_flags")
           /\ ProcessInputPanics(input)
    \/ Called("process_input_only_flags") /\ OnlyFlagsPanics(input, args)

NoRetryState ==
    /\ Count("spawn") <= 1
    /\ Called("spawn") => is_no_only_flag_set(args) /\ args.format # "Markdown"
    /\ PipelineFailed =>
           /\ pc = "panicked"
           /\ output_buffer = EmptyMap /\ fs = EmptyMap /\ stdout = <<>>

(* C18: no retries. In any run the converter process is started at most
   once, and only when no single-purpose flag is set and the format is
   not Markdown; a failure of the parser, the renderer or the converter
   ends the run, and no step is taken after it. *)
C18_NoRetries ==
    /\ []NoRetryState
    /\ [][pc = "panicked" => FALSE]_vars
    /\ [][(pc = "converted" /\ conv.state = "err") => pc' = "panicked"]_vars

C18_Witness ==
    /\ pc = "panicked"
    /\ conv.state = "err"
    /\ child.state = "exited"
    /\ Count("spawn") = 1

-----------------------------------------------------------------------------
(* Claims about the lines of the documentation strings *)

LinesAreTrimmed(documentation) ==
    \A i \in DOMAIN Lines(documentation) :
        Trim(Lines(documentation)[i]) = Lines(documentation)[i]

(* C19, as claimed: every line of every documentation string the Doc
   Extractor produces (structure, fields, methods) has no leading and no
   trailing whitespace, also when a doc-comment value spans several
   lines. *)
C19_EveryLineTrimmed ==
    Returned =>
        /\ LinesAreTrimmed(class.documentation)
        /\ \A i \in DOMAIN class.fields :
               LinesAreTrimmed(class.fields[i].documentation)
        /\ \A i \in DOMAIN class.methods :
               LinesAreTrimmed(class.methods[i].documentation)

-----------------------------------------------------------------------------
(* Claims about name preservation *)

PreserveNamesFromStdin == args.preserve_names /\ ~args.input_file.some

(* C20: when name preservation is requested and no input file is given,
   the run ends unsuccessfully with exit code 101 before any input is
   read; no output file is created and nothing is written to standard
   output. *)
C20_PreserveNamesNeedsInputFile ==
    /\ [](PreserveNamesFromStdin =>
              /\ pc \in {"main", "panicked"}
              /\ pc = "panicked" => ExitCode = 101
              /\ calls = <<>>
              /\ fs = EmptyMap
              /\ stdout = <<>>)
    /\ [][PreserveNamesFromStdin =>
              pc = "main" /\ pc' = "panicked" /\ UNCHANGED <<input, fs, stdout>>]_vars

C20_Witness ==
    /\ PreserveNamesFromStdin
    /\ pc = "panicked"
    /\ ExitCode = 101
    /\ args.output_file.some

-----------------------------------------------------------------------------
(* Claims about fields and attributes *)

(* C21: fields holds one DocItem per named field of the structure, in
   declaration order: its name is the field identifier, its documentation
   the field's doc lines, each trimmed and newline-terminated, without a
   further newline (empty without doc comment); a structure without named
   fields yields no field item. *)
C21_FieldsOfTheStructure ==
    (Returned /\ Len(StructsOf(input)) = 1)
        => class.fields
               = (IF OnlyStruct.fields = "Named"
                  THEN [i \in DOMAIN OnlyStruct.named |->
                            ExpectedField(OnlyStruct.named[i])]
                  ELSE <<>>)

C21_Witness ==
    /\ Returned
    /\ Len(StructsOf(input)) = 1
    /\ OnlyStruct.ident = <<"E">>
    /\ class.fields = <<Method(<<"v">>, <<"q", NL, "r", NL>>)>>

-----------------------------------------------------------------------------
(* Claims about the invocations of a run *)

(* C22, as claimed: in every run of start, in every mode, the Diagram
   Renderer and the Doc Extractor are each invoked at most once, and what
   they produce is consumed by the returned bundle: a bundle without
   diagram is returned by a run that has not rendered one, a bundle
   without documentation by a run that has not extracted any. *)
C22_InvokedOnceAndConsumed ==
    /\ Count("parse_code_to_string") <= 1
    /\ Count("parse_code_doc") <= 1
    /\ (pc = "returned" /\ args.markdown_only) => ~Called("parse_code_to_string")
    /\ (pc = "returned" /\ args.plantuml_only) => ~Called("parse_code_doc")

-----------------------------------------------------------------------------
(* Claims about the pipes of the converter *)

(* C23, as claimed: with a converter that reads its input whenever it can
   write its pending output and exits after the end of its input, for
   every input length and every pipe capacity, the parent, writing the
   whole input before it reads any output, eventually obtains the
   result. *)
C23_ParentObtainsResult == <>(pc = "waited")

\* the same with a converter that reads its input to the end before it
\* writes: this one the parent never blocks against
PipeBufferingChildObtainsResult == (child.kind = "buffering") => <>(pc = "waited")

\* the state both processes are blocked in: the parent in write_all on a
\* full stdin pipe, the child in its write on a full stdout pipe
PipeBothBlocked ==
    /\ pc = "spawned" /\ child.written < Len(markdown_output)
    /\ child.stdin_pipe = child.stdin_capacity
    /\ child.pending_out > 0
    /\ child.stdout_pipe = child.stdout_capacity
    /\ ~ENABLED NextPipe

-----------------------------------------------------------------------------
(* Claims about the output written *)

\* what a run writes to standard output when the HashMap hands out the
\* entries of the bundle in the given order
StdoutInOrder(order) ==
    Join([i \in DOMAIN order |-> output_buffer[order[i]]], <<NL>>)

(* C24, as claimed: two runs on the same input and arguments write the
   same bytes to standard output: what a run has written without an output
   file is what every run with this bundle writes, whatever the order its
   HashMap hands the entries out in; in combined mode the AsciiDoc text and
   the diagram text come in one order. *)
C24_StdoutDeterministic ==
    (pc = "done" /\ ~args.output_file.some)
        => \A order \in Orders(DOMAIN output_buffer) :
               stdout = StdoutInOrder(order)

-----------------------------------------------------------------------------
(* Claims about the attributes the extractor meets *)

(* C25, as claimed: on every input that parses as source syntax,
   parse_code_doc returns a ParsedType, whatever attributes the structures,
   fields and methods carry: an attribute that is no doc name-value pair,
   one whose tokens form no meta item included, is passed over and never
   aborts the extraction. *)
C25_ValidSourceNeverAborts ==
    (input.ok /\ pc # "extract") => (pc = "extracted" /\ ~class.panicked)

-----------------------------------------------------------------------------
(* Claims about what replace_puml_with_include leaves alone *)

\* the spans <<first, last>> of the text that replace_puml_with_include
\* replaces: the matches of its pattern, leftmost first, not overlapping
RECURSIVE ReplacedSpansFrom(_, _)
ReplacedSpansFrom(s, i) ==
    LET found == {j \in i..Len(s) : PatternMatch(s, j) # 0}
    IN  IF found = {} THEN {}
        ELSE {<<Min(found), PatternMatch(s, Min(found)) - 1>>}
                 \cup ReplacedSpansFrom(s, PatternMatch(s, Min(found)))

ReplacedSpans(s) == ReplacedSpansFrom(s, 1)

\* the text with the given spans replaced by the directive, the rest kept
RECURSIVE WithSpansReplaced(_, _, _)
WithSpansReplaced(s, spans, i) ==
    IF i > Len(s) THEN <<>>
    ELSE IF \E sp \in spans : sp[1] = i
         THEN LET sp == CHOOSE sp \in spans : sp[1] = i
              IN  IncludeDirective \o WithSpansReplaced(s, spans, sp[2] + 1)
         ELSE <<s[i]>> \o WithSpansReplaced(s, spans, i + 1)

\* the diagram blocks of a text, as spans <<first, last>>: from a
\* '[plantuml]' line with its opening '----' line to the next '----'
DiagramBlocks(s) ==
    {<<i, Min({j \in LineEndsThenDashes(s, i + 3)..Len(s) : s[j] = Dashes})>> :
         i \in {i \in 1..Len(s) :
                    /\ i + 2 <= Len(s)
                    /\ SubSeq(s, i, i + 2) = PlantumlAttr
                    /\ LineEndsThenDashes(s, i + 3) # 0
                    /\ \E j \in LineEndsThenDashes(s, i + 3)..Len(s) :
                           s[j] = Dashes}}

Within(span, block) == block[1] <= span[1] /\ span[2] <= block[2]

(* C26, as claimed: replace_puml_with_include leaves the text outside the
   '[plantuml]' blocks unchanged: its result is the text with some spans
   replaced, and every span it replaces lies inside one block, from the
   '[plantuml]' line and its opening '----' line to the next '----' line,
   also when a block holds no '@enduml'. *)
C26_OnlyInsideOneBlock ==
    CombinedReturned =>
        /\ output_buffer["Asciidoc"]
               = WithSpansReplaced(conv.text, ReplacedSpans(conv.text), 1)
        /\ \A span \in ReplacedSpans(conv.text) :
               \E block \in DiagramBlocks(conv.text) : Within(span, block)

\* the first conjunct alone: the result is the text with the matched spans
\* replaced and every token outside them kept
ReplaceKeepsUnmatchedText ==
    CombinedReturned =>
        output_buffer["Asciidoc"]
            = WithSpansReplaced(conv.text, ReplacedSpans(conv.text), 1)

-----------------------------------------------------------------------------
(* Claims about the files written *)

\* the directory part of a path, with its last "/"; empty without one
DirectoryOf(path) == SubSeq(path, 1, LastIndexOf(path, "/"))

\* the file of a bundle entry, in the directory the output-file path names
FileInOutputDirectory(format) ==
    DirectoryOf(args.output_file.v) \o args.file_name_prefix.v
        \o file_stem(args.output_file.v) \o get_output_format_extension(format)

\* the same name without the directory: a file of the working directory
FileInWorkingDirectory(format) ==
    args.file_name_prefix.v \o file_stem(args.output_file.v)
        \o get_output_format_extension(format)

(* C27, as claimed: with an output file, every bundle entry is written to
   a file in the directory the output-file path names, called prefix + base
   name of the output file + extension of the entry's format; nothing goes
   to standard output, and two entries of a bundle never go to one file;
   without an output file no file is created. *)
C27_FilesInOutputDirectory ==
    /\ args.output_file.some
           => /\ stdout = <<>>
              /\ pc = "done"
                     => /\ DOMAIN fs = {FileInOutputDirectory(format) :
                                            format \in DOMAIN output_buffer}
                        /\ Cardinality(DOMAIN fs)
                               = Cardinality(DOMAIN output_buffer)
    /\ ~args.output_file.some => DOMAIN fs = {}

\* what the run does: the files are those names in the working directory
FilesWrittenInWorkingDirectory ==
    /\ args.output_file.some
           => /\ stdout = <<>>
              /\ pc = "done"
                     => /\ DOMAIN fs = {FileInWorkingDirectory(format) :
                                            format \in DOMAIN output_buffer}
                        /\ Cardinality(DOMAIN fs)
                               = Cardinality(DOMAIN output_buffer)
    /\ ~args.output_file.some => DOMAIN fs = {}

=============================================================================
